---- MODULE Spec2Model ----
(***************************************************************************)
(* Model of src/templates/python_task_1.py: six table transforms           *)
(* (generate_car_matrix, get_type_count, get_bus_indexes, filter_routes,   *)
(* multiply_matrix, time_check) called by a caller that owns one input     *)
(* object (a DataFrame) and keeps the value each call returns.             *)
(*                                                                         *)
(* Objects live in a heap: heap[1] is the caller's input object, and a     *)
(* returned DataFrame is heap[ret].  Numbers of a matrix handed to         *)
(* multiply_matrix are fixed-point hundredths (2400 is 24.00), which is    *)
(* exact for the integer cell values drawn here.                           *)
(***************************************************************************)
EXTENDS Integers, Sequences, FiniteSets, TLC

VARIABLES heap, ret, log, orig

vars == <<heap, ret, log, orig>>

(***************************************************************************)
(* Bounds of the model.                                                    *)
(***************************************************************************)
MaxCarRows == 2
MaxBusRows == 4
MaxRouteRows == 3
MaxCalls == 2
MaxMissing == 2

\* A cell of a frame is NaN (unset) or holds one number.
NaN == <<>>
Num(v) == <<v>>

(***************************************************************************)
(* Sequence helpers.                                                       *)
(***************************************************************************)
Range(s) == {s[i] : i \in DOMAIN s}

RECURSIVE SumSeq(_)
SumSeq(s) == IF s = <<>> THEN 0 ELSE s[1] + SumSeq(Tail(s))

\* A DataFrame with a default RangeIndex is [kind |-> "table", columns, rows]:
\* the column names in order and one record per row.  df[c] is Column(df, c).
Column(df, c) == [k \in 1..Len(df.rows) |-> df.rows[k][c]]

\* df[c] = col: the column is replaced, or added after the others.
SetColumn(df, c, col) ==
    [df EXCEPT
        !.columns = IF c \in Range(df.columns) THEN df.columns
                    ELSE Append(df.columns, c),
        !.rows = [k \in 1..Len(df.rows) |->
                    [x \in (DOMAIN df.rows[k]) \cup {c} |->
                        IF x = c THEN col[k] ELSE df.rows[k][x]]]]

\* The rows of df that pass a boolean mask, as a frame of their own.
Rows(df, mask) ==
    LET Pos == {k \in 1..Len(df.rows) : mask[k]}
        Nth(i) == CHOOSE k \in Pos : Cardinality({j \in Pos : j < k}) = i - 1
    IN  [df EXCEPT !.rows = [i \in 1..Cardinality(Pos) |-> df.rows[Nth(i)]]]

\* Lexicographic order on tuples of integers (Python's tuple / str order).
LexLess(a, b) ==
    \E i \in 1..(Len(b)) :
        /\ \A j \in 1..(i - 1) : j <= Len(a) /\ a[j] = b[j]
        /\ (i > Len(a) \/ (i <= Len(a) /\ a[i] < b[i]))

\* list.sort() / sorted(): a stable insertion sort of [k, v] entries by key k.
RECURSIVE InsertKeyed(_, _)
InsertKeyed(s, e) ==
    IF s = <<>> THEN <<e>>
    ELSE IF LexLess(e.k, s[1].k) THEN <<e>> \o s
    ELSE <<s[1]>> \o InsertKeyed(Tail(s), e)

RECURSIVE SortKeyed(_)
SortKeyed(s) ==
    IF s = <<>> THEN <<>>
    ELSE InsertKeyed(SortKeyed(SubSeq(s, 1, Len(s) - 1)), s[Len(s)])

SortInts(s) ==
    LET keyed == [i \in 1..Len(s) |-> [k |-> <<s[i]>>, v |-> s[i]]]
        sorted == SortKeyed(keyed)
    IN  [i \in 1..Len(s) |-> sorted[i].v]

\* Series.unique(): the distinct values in order of first appearance.
RECURSIVE Unique(_)
Unique(s) ==
    IF s = <<>> THEN <<>>
    ELSE LET u == Unique(SubSeq(s, 1, Len(s) - 1))
             x == s[Len(s)]
         IN  IF x \in Range(u) THEN u ELSE Append(u, x)

\* A default RangeIndex: the row at position k carries the label k - 1.
RowIndex(df) == [k \in 1..Len(df.rows) |-> k - 1]

(***************************************************************************)
(* generate_car_matrix                                                     *)
(***************************************************************************)
EmptyFrame(index, columns) ==
    [kind |-> "matrix", index |-> index, columns |-> columns,
     cell |-> [p \in Range(index) \X Range(columns) |-> NaN]]

\* FillCarMatrix with the first row of a pair kept instead of the last.
RECURSIVE FillCarMatrixFirstWins(_, _, _)
FillCarMatrixFirstWins(m, df, k) ==
    IF k > Len(df.rows) THEN m
    ELSE LET row == df.rows[k]
             p == <<row.id_1, row.id_2>>
         IN  FillCarMatrixFirstWins(
                IF m.cell[p] = NaN THEN [m EXCEPT !.cell[p] = Num(row.car)] ELSE m,
                df, k + 1)

RECURSIVE FillCarMatrix(_, _, _)
FillCarMatrix(m, df, k) ==
    IF k > Len(df.rows) THEN m
    ELSE LET row == df.rows[k]
         IN  FillCarMatrix(
                [m EXCEPT !.cell[<<row.id_1, row.id_2>>] = Num(row.car)], df, k + 1)

generate_car_matrix(df) ==
    LET id_1_values == Unique(Column(df, "id_1"))
        id_2_values == Unique(Column(df, "id_2"))
        car_matrix == EmptyFrame(id_1_values, id_2_values)
    IN  FillCarMatrix(car_matrix, df, 1)

(***************************************************************************)
(* get_type_count                                                          *)
(***************************************************************************)
CarBinLow == 15
CarBinHigh == 25

\* The finite edges of bins=[-inf, 15, 25, inf] and the labels of the bins.
CutEdges == <<CarBinLow, CarBinHigh>>
CutLabels == <<"low", "medium", "high">>

\* cut with right-closed bins, pd.cut's default.
cutRightClosed(v) ==
    CutLabels[1 + Cardinality({i \in DOMAIN CutEdges : CutEdges[i] < v})]

\* pd.cut(..., right=False): bin i is [edge i-1, edge i), so a value lies in
\* the bin numbered by the edges that are <= it.
cut(v) == CutLabels[1 + Cardinality({i \in DOMAIN CutEdges : CutEdges[i] <= v})]

\* The characters of a label, for Python's string order.
Chars(label) ==
    CASE label = "low" -> <<108, 111, 119>>
      [] label = "medium" -> <<109, 101, 100, 105, 117, 109>>
      [] label = "high" -> <<104, 105, 103, 104>>

\* value_counts with the categories no row falls in left out.
value_counts_observed(col) ==
    LET all == [i \in DOMAIN CutLabels |->
                   [k |-> CutLabels[i],
                    v |-> Cardinality({r \in DOMAIN col : col[r] = CutLabels[i]})]]
        Seen(e) == e.v > 0
    IN  SelectSeq(all, Seen)

\* Series.value_counts().to_dict() of a categorical column: one entry for
\* EVERY category of the dtype, also those no row falls in.  (pandas orders
\* the entries by count; the caller sorts them by key right after.)
value_counts(col) ==
    [i \in DOMAIN CutLabels |->
        [k |-> CutLabels[i],
         v |-> Cardinality({r \in DOMAIN col : col[r] = CutLabels[i]})]]

\* dict(sorted(d.items())): the entries in ascending key order.
SortedItems(d) ==
    LET keyed == [i \in DOMAIN d |-> [k |-> Chars(d[i].k), v |-> d[i]]]
        sorted == SortKeyed(keyed)
    IN  [i \in DOMAIN d |-> sorted[i].v]

\* df['car_type'] = ... assigns the column on the caller's own frame.
AssignCarType(df) ==
    LET car == Column(df, "car")
    IN  SetColumn(df, "car_type", [k \in DOMAIN car |-> cut(car[k])])

get_type_count(df) ==
    LET df1 == AssignCarType(df)
        car_type_counts == value_counts(Column(df1, "car_type"))
    IN  [df |-> df1, out |-> SortedItems(car_type_counts)]

(***************************************************************************)
(* get_bus_indexes and filter_routes                                       *)
(***************************************************************************)
BusFactor == 2
TruckThreshold == 7

\* Series.mean() as the exact fraction num/den; den = 0 is NaN.
Mean(s) == [num |-> SumSeq(s), den |-> Len(s)]

\* The two comparisons with >= in place of >.
GeTimesMean(v, f, mean) == mean.den > 0 /\ v * mean.den >= f * mean.num
MeanGe(mean, c) == mean.den > 0 /\ mean.num >= c * mean.den

\* v > f * mean; every comparison with NaN is False.
GtTimesMean(v, f, mean) == mean.den > 0 /\ v * mean.den > f * mean.num

\* mean > c
MeanGt(mean, c) == mean.den > 0 /\ mean.num > c * mean.den

get_bus_indexes(df) ==
    LET bus == Column(df, "bus")
        bus_mean == Mean(bus)
        index == RowIndex(df)
        Keep(i) == GtTimesMean(bus[i + 1], BusFactor, bus_mean)
        bus_indexes == SelectSeq(index, Keep)
    IN  SortInts(bus_indexes)

\* df.groupby('route')['truck'].mean(): one entry per route present, in
\* ascending key order.
GroupTruckMean(df) ==
    LET keys == SortInts(Unique(Column(df, "route")))
        route == Column(df, "route")
        InGroup(key) == Rows(df, [k \in DOMAIN route |-> route[k] = key])
    IN  [i \in DOMAIN keys |->
            [k |-> keys[i], v |-> Mean(Column(InGroup(keys[i]), "truck"))]]

filter_routes(df) ==
    LET avg_truck_values == GroupTruckMean(df)
        Keep(e) == MeanGt(e.v, TruckThreshold)
        kept == SelectSeq(avg_truck_values, Keep)
        filtered_routes == [i \in DOMAIN kept |-> kept[i].k]
    IN  SortInts(filtered_routes)

(***************************************************************************)
(* multiply_matrix                                                         *)
(***************************************************************************)
MatrixThreshold == 20

\* n as a fixed-point number of hundredths.
Fx(n) == n * 100

\* matrix > c and matrix <= c: boolean frames; NaN compares False.
FrameGt(m, c) == [p \in DOMAIN m.cell |-> m.cell[p] # NaN /\ m.cell[p][1] > c]
FrameLe(m, c) == [p \in DOMAIN m.cell |-> m.cell[p] # NaN /\ m.cell[p][1] <= c]

\* x * (pct / 100) on hundredths.
Scale(x, pct) == IF x = NaN THEN NaN ELSE Num((x[1] * pct) \div 100)

\* frame[mask] *= pct/100: frame[mask] keeps the masked cells (NaN
\* elsewhere), the product is taken, and the masked cells are assigned.
MaskedScale(frame, mask, pct) ==
    LET picked == [p \in DOMAIN frame.cell |->
                       IF mask[p] THEN frame.cell[p] ELSE NaN]
        scaled == [p \in DOMAIN picked |-> Scale(picked[p], pct)]
    IN  [frame EXCEPT !.cell =
            [p \in DOMAIN frame.cell |->
                IF mask[p] THEN scaled[p] ELSE frame.cell[p]]]

\* numpy's round to one decimal on hundredths: to the nearest tenth, a tie
\* going to the even tenth.
Round1(x) ==
    IF x = NaN THEN NaN
    ELSE LET q == x[1] \div 10
             r == x[1] % 10
         IN  IF r < 5 THEN Num(q * 10)
             ELSE IF r > 5 THEN Num((q + 1) * 10)
             ELSE IF q % 2 = 0 THEN Num(q * 10) ELSE Num((q + 1) * 10)

FrameRound(m) == [m EXCEPT !.cell = [p \in DOMAIN m.cell |-> Round1(m.cell[p])]]

\* copy that hands back the object itself (modified_matrix = matrix).
copyAlias(h, r) == [heap |-> h, ref |-> r]

\* matrix.copy(): a new object holding the same cells.
\* Returns the heap with the new object and its reference.
copy(h, r) == [heap |-> Append(h, h[r]), ref |-> Len(h) + 1]

\* multiply_matrix with both masks taken from the frame being modified, so
\* that a cell scaled down to 20 or less is scaled again.
multiply_matrix_rescaled(h, matrix) ==
    LET h1 == Append(h, h[matrix])
        modified_matrix == Len(h) + 1
        h2 == [h1 EXCEPT ![modified_matrix] =
                  MaskedScale(h1[modified_matrix],
                              FrameGt(h1[modified_matrix], Fx(MatrixThreshold)), 75)]
        h3 == [h2 EXCEPT ![modified_matrix] =
                  MaskedScale(h2[modified_matrix],
                              FrameLe(h2[modified_matrix], Fx(MatrixThreshold)), 125)]
    IN  [heap |-> Append(h3, FrameRound(h3[modified_matrix])),
         ref |-> Len(h3) + 1]

\* multiply_matrix on the object h[matrix]; returns the heap after the call
\* and the reference of the returned frame.
multiply_matrix(h, matrix) ==
    LET c == copy(h, matrix)
        modified_matrix == c.ref
        h1 == c.heap
        h2 == [h1 EXCEPT ![modified_matrix] =
                  MaskedScale(h1[modified_matrix],
                              FrameGt(h1[matrix], Fx(MatrixThreshold)), 75)]
        h3 == [h2 EXCEPT ![modified_matrix] =
                  MaskedScale(h2[modified_matrix],
                              FrameLe(h2[matrix], Fx(MatrixThreshold)), 125)]
    IN  [heap |-> Append(h3, FrameRound(h3[modified_matrix])),
         ref |-> Len(h3) + 1]

(***************************************************************************)
(* time_check                                                              *)
(***************************************************************************)
SecondsPerDay == 86400
DaysPerWeek == 7
\* pd.Timestamp('00:00:00').time() and pd.Timestamp('23:59:59').time() as
\* seconds since midnight.
DayStart == 0
DayEnd == 86399
\* 1970-01-01, day 0 of the epoch, was a Thursday (dayofweek 3).
EpochWeekday == 3

\* to_datetime that reads a value parsed already as a count of nanoseconds.
to_datetime_reparse(x) ==
    IF x.kind = "str"
    THEN [kind |-> "datetime",
          epoch |-> x.date * SecondsPerDay + x.hh * 3600 + x.mm * 60 + x.ss]
    ELSE [kind |-> "datetime", epoch |-> x.epoch \div 1000000000]

\* pd.to_datetime on one cell: a string is parsed to a timestamp (seconds
\* since the epoch); a value that is a timestamp already is kept.
to_datetime(x) ==
    IF x.kind = "str"
    THEN [kind |-> "datetime",
          epoch |-> x.date * SecondsPerDay + x.hh * 3600 + x.mm * 60 + x.ss]
    ELSE x

\* Timestamp.dayofweek (Monday = 0) and Timestamp.time().
dayofweek(ts) == ((ts.epoch \div SecondsPerDay) + EpochWeekday) % DaysPerWeek
timeofday(ts) == ts.epoch % SecondsPerDay

\* The three column assignments of time_check, on the caller's own frame.
AssignTimeColumns(df) ==
    LET raw == Column(df, "timestamp")
        df1 == SetColumn(df, "timestamp", [k \in DOMAIN raw |-> to_datetime(raw[k])])
        ts == Column(df1, "timestamp")
        df2 == SetColumn(df1, "day_of_week", [k \in DOMAIN ts |-> dayofweek(ts[k])])
    IN  SetColumn(df2, "time", [k \in DOMAIN ts |-> timeofday(ts[k])])

SeqMin(s) == CHOOSE x \in Range(s) : \A y \in Range(s) : x <= y
SeqMax(s) == CHOOSE x \in Range(s) : \A y \in Range(s) : x >= y

\* The lambda with unique() compared as it comes, not sorted.
GroupCompleteUnsorted(x) ==
    /\ SeqMin(Column(x, "time")) <= DayStart
    /\ SeqMax(Column(x, "time")) >= DayEnd
    /\ Unique(Column(x, "day_of_week")) = [i \in 1..DaysPerWeek |-> i - 1]

\* The lambda applied to one group x.
GroupComplete(x) ==
    /\ SeqMin(Column(x, "time")) <= DayStart
    /\ SeqMax(Column(x, "time")) >= DayEnd
    /\ SortInts(Unique(Column(x, "day_of_week")))
         = [i \in 1..DaysPerWeek |-> i - 1]

\* df.groupby(['id', 'id_2']): the keys present, in ascending order.
GroupKeys(df) ==
    LET pairs == Unique([k \in 1..Len(df.rows) |-> <<df.rows[k].id, df.rows[k].id_2>>])
        sorted == SortKeyed([i \in DOMAIN pairs |-> [k |-> pairs[i], v |-> pairs[i]]])
    IN  [i \in DOMAIN pairs |-> sorted[i].v]

time_check(df) ==
    LET df1 == AssignTimeColumns(df)
        keys == GroupKeys(df1)
        Group(key) ==
            Rows(df1, [k \in 1..Len(df1.rows) |->
                          <<df1.rows[k].id, df1.rows[k].id_2>> = key])
        completeness_check ==
            [i \in DOMAIN keys |-> [k |-> keys[i], v |-> GroupComplete(Group(keys[i]))]]
    IN  [df |-> df1, out |-> completeness_check]

(***************************************************************************)
(* The inputs a caller may hold.                                           *)
(***************************************************************************)
IdValues == {1, 2}
CarValues == {14, 15, 24, 25}
BusValues == {0, 1, 2, 10}
RouteValues == {1, 2}
TruckValues == {6, 7, 8}
\* Matrix cells in whole units; each is stored as hundredths.
CellValues == {0, 3, 20, 21, 24, 27}
\* Seconds since midnight of 00:00:00, 09:00:00, 17:00:00 and 23:59:59.
TimeValues == {0, 32400, 61200, 86399}
\* Days of the epoch: Monday 1970-01-05 to Monday 1970-01-12.
DayValues == 4..11

Table(columns, rows) == [kind |-> "table", columns |-> columns, rows |-> rows]

SeqsUpTo(S, n) == UNION {[1..m -> S] : m \in 0..n}

CarTables ==
    {Table(<<"id_1", "id_2", "car">>, r) :
        r \in SeqsUpTo([id_1 : IdValues, id_2 : IdValues, car : CarValues], MaxCarRows)}

BusTables ==
    {Table(<<"bus">>, r) : r \in SeqsUpTo([bus : BusValues], MaxBusRows)}

RouteTables ==
    {Table(<<"route", "truck">>, r) :
        r \in SeqsUpTo([route : RouteValues, truck : TruckValues], MaxRouteRows)}

MatricesOn(index, columns) ==
    {[kind |-> "matrix", index |-> index, columns |-> columns, cell |-> c] :
        c \in [Range(index) \X Range(columns) ->
                  {Num(Fx(v)) : v \in CellValues} \cup {NaN}]}

Matrices == MatricesOn(<<1>>, <<2, 1>>) \cup MatricesOn(<<1, 2>>, <<1, 2>>)

\* The text of a timestamp: a date (as its day of the epoch) and a time.
TimeString(d, secs) ==
    [kind |-> "str", date |-> d,
     hh |-> secs \div 3600, mm |-> (secs % 3600) \div 60, ss |-> secs % 60]

Ascending(S) == [i \in 1..Cardinality(S) |->
                    CHOOSE x \in S : Cardinality({y \in S : y < x}) = i - 1]

\* One row per day of D and time of T.  The rows of the last day of D
\* belong to pair (1, 1), (1, 2) or (2, 1) as split says; all others to
\* (1, 1).
TimeRows(D, T, split) ==
    LET days == Ascending(D)
        times == Ascending(T)
        last == days[Len(days)]
        Pair(d) == IF d # last \/ split = 0 THEN <<1, 1>>
                   ELSE IF split = 1 THEN <<1, 2>> ELSE <<2, 1>>
    IN  [i \in 1..(Len(days) * Len(times)) |->
            LET d == days[((i - 1) \div Len(times)) + 1]
                t == times[((i - 1) % Len(times)) + 1]
            IN  [id |-> Pair(d)[1], id_2 |-> Pair(d)[2],
                 timestamp |-> TimeString(d, t)]]

\* Up to MaxMissing of the days are missing from a table.
TimeTables ==
    {Table(<<"id", "id_2", "timestamp">>, TimeRows(DayValues \ M, T, split)) :
        M \in {X \in SUBSET DayValues : Cardinality(X) <= MaxMissing},
        T \in (SUBSET TimeValues) \ {{}},
        split \in 0..2}

Inputs == CarTables \cup BusTables \cup RouteTables \cup Matrices \cup TimeTables

(***************************************************************************)
(* The caller.                                                             *)
(***************************************************************************)
Init ==
    /\ \E x \in Inputs : heap = <<x>> /\ orig = x
    /\ ret = 0
    /\ log = <<>>

HasColumns(obj, cols) == obj.kind = "table" /\ cols \subseteq Range(obj.columns)

\* The heap once a call has returned: the input object, and the returned
\* frame when it is another object.  The callee's locals are gone.
AfterCall(h, r) == IF r = 1 THEN <<h[1]>> ELSE <<h[1], h[r]>>

Entry(fn, arg, out) == [fn |-> fn, arg |-> arg, out |-> out]

Call_generate_car_matrix ==
    /\ Len(log) < MaxCalls
    /\ HasColumns(heap[1], {"id_1", "id_2", "car"})
    /\ LET out == generate_car_matrix(heap[1])
       IN  /\ heap' = <<heap[1], out>>
           /\ ret' = 2
           /\ log' = Append(log, Entry("generate_car_matrix", heap[1], out))
    /\ UNCHANGED orig

Call_get_type_count ==
    /\ Len(log) < MaxCalls
    /\ HasColumns(heap[1], {"car"})
    /\ LET r == get_type_count(heap[1])
       IN  /\ heap' = <<r.df>>
           /\ log' = Append(log, Entry("get_type_count", heap[1], r.out))
    /\ ret' = 0
    /\ UNCHANGED orig

Call_get_bus_indexes ==
    /\ Len(log) < MaxCalls
    /\ HasColumns(heap[1], {"bus"})
    /\ log' = Append(log, Entry("get_bus_indexes", heap[1], get_bus_indexes(heap[1])))
    /\ heap' = <<heap[1]>>
    /\ ret' = 0
    /\ UNCHANGED orig

Call_filter_routes ==
    /\ Len(log) < MaxCalls
    /\ HasColumns(heap[1], {"route", "truck"})
    /\ log' = Append(log, Entry("filter_routes", heap[1], filter_routes(heap[1])))
    /\ heap' = <<heap[1]>>
    /\ ret' = 0
    /\ UNCHANGED orig

Call_multiply_matrix ==
    /\ Len(log) < MaxCalls
    /\ heap[1].kind = "matrix"
    /\ LET r == multiply_matrix(<<heap[1]>>, 1)
       IN  /\ heap' = AfterCall(r.heap, r.ref)
           /\ ret' = IF r.ref = 1 THEN 1 ELSE 2
           /\ log' = Append(log, Entry("multiply_matrix", heap[1], r.heap[r.ref]))
    /\ UNCHANGED orig

Call_time_check ==
    /\ Len(log) < MaxCalls
    /\ HasColumns(heap[1], {"id", "id_2", "timestamp"})
    /\ LET r == time_check(heap[1])
       IN  /\ heap' = <<r.df>>
           /\ log' = Append(log, Entry("time_check", heap[1], r.out))
    /\ ret' = 0
    /\ UNCHANGED orig

\* The value the caller writes into a returned frame.
EditedCell == Num(Fx(99))

\* The caller changes one cell of the frame the last call returned, once
\* per returned frame.
EditResult ==
    /\ ret # 0
    /\ heap[ret] = log[Len(log)].out
    /\ \E p \in DOMAIN heap[ret].cell :
          /\ heap[ret].cell[p] # EditedCell
          /\ heap' = [heap EXCEPT ![ret].cell[p] = EditedCell]
    /\ UNCHANGED <<ret, log, orig>>

Next ==
    \/ Call_generate_car_matrix
    \/ Call_get_type_count
    \/ Call_get_bus_indexes
    \/ Call_filter_routes
    \/ Call_multiply_matrix
    \/ Call_time_check
    \/ EditResult

Spec == Init /\ [][Next]_vars

(***************************************************************************)
(* The claims.  Each is stated over the calls made so far: log[i].arg is   *)
(* the input object as call i found it, log[i].out the value it returned.  *)
(***************************************************************************)
Calls(fn) == {i \in DOMAIN log : log[i].fn = fn}

NoDuplicates(s) == \A i, j \in DOMAIN s : s[i] = s[j] => i = j

StrictlyAscending(s) == \A i \in 1..(Len(s) - 1) : s[i] < s[i + 1]

\* The rows of table df that carry the pair (a, b) in columns ca and cb.
RowsOfPair(df, ca, cb, a, b) ==
    {k \in 1..Len(df.rows) : df.rows[k][ca] = a /\ df.rows[k][cb] = b}

SetMax(S) == CHOOSE x \in S : \A y \in S : y <= x

\* C1: generate_car_matrix returns a matrix with one row per distinct id_1
\* value and one column per distinct id_2 value; the cell of a pair (a, b)
\* that occurs in the input holds the car value of the LAST row with that
\* pair, every other cell is unset, and an empty table gives a matrix with
\* no rows and no columns.
C1_PairwiseMatrix ==
    \A i \in Calls("generate_car_matrix") :
        LET df == log[i].arg
            m == log[i].out
            ids1 == {df.rows[k].id_1 : k \in 1..Len(df.rows)}
            ids2 == {df.rows[k].id_2 : k \in 1..Len(df.rows)}
        IN  /\ NoDuplicates(m.index) /\ Range(m.index) = ids1
            /\ NoDuplicates(m.columns) /\ Range(m.columns) = ids2
            /\ DOMAIN m.cell = ids1 \X ids2
            /\ \A a \in ids1, b \in ids2 :
                  LET hits == RowsOfPair(df, "id_1", "id_2", a, b)
                  IN  IF hits = {} THEN m.cell[<<a, b>>] = NaN
                      ELSE m.cell[<<a, b>>] = Num(df.rows[SetMax(hits)].car)
            /\ (df.rows = <<>> => m.index = <<>> /\ m.columns = <<>>)

\* C1's case: two rows share a pair and differ in car, so the later one
\* decides the cell.
W1_LaterRowWins ==
    \E i \in Calls("generate_car_matrix") :
        LET df == log[i].arg
        IN  \E k, j \in 1..Len(df.rows) :
                /\ k < j
                /\ df.rows[k].id_1 = df.rows[j].id_1
                /\ df.rows[k].id_2 = df.rows[j].id_2
                /\ df.rows[k].car # df.rows[j].car
                /\ log[i].out.cell[<<df.rows[j].id_1, df.rows[j].id_2>>]
                     = Num(df.rows[j].car)

\* The label of a car value by the half-open ranges of the specification.
RangeLabel(car) ==
    IF car < 15 THEN "low" ELSE IF car < 25 THEN "medium" ELSE "high"

RowsLabelled(df, label) == {k \in 1..Len(df.rows) : RangeLabel(df.rows[k].car) = label}

RECURSIVE SumCounts(_)
SumCounts(d) == IF d = <<>> THEN 0 ELSE d[1].v + SumCounts(Tail(d))

\* C2: get_type_count labels each row low (car < 15), medium (15 <= car <
\* 25) or high (car >= 25); the count it reports for a label is the number
\* of rows in that label's range, and the counts sum to the number of rows.
C2_CountsByRange ==
    \A i \in Calls("get_type_count") :
        LET df == log[i].arg
            d == log[i].out
        IN  /\ NoDuplicates([j \in DOMAIN d |-> d[j].k])
            /\ \A j \in DOMAIN d : d[j].v = Cardinality(RowsLabelled(df, d[j].k))
            /\ SumCounts(d) = Len(df.rows)
            /\ \A k \in 1..Len(heap[1].rows) :
                  heap[1].rows[k].car_type = RangeLabel(heap[1].rows[k].car)

\* C2's case: both boundary values occur, 15 counted as medium and 25 as
\* high.
W2_Boundaries ==
    \E i \in Calls("get_type_count") :
        LET df == log[i].arg
            d == log[i].out
        IN  /\ {df.rows[k].car : k \in 1..Len(df.rows)} = {15, 25}
            /\ \E j \in DOMAIN d : d[j].k = "medium" /\ d[j].v >= 1
            /\ \E j \in DOMAIN d : d[j].k = "high" /\ d[j].v >= 1

\* C3 as claimed: the mapping get_type_count returns holds only categories
\* with at least one row: every key has a count >= 1 and a label no row
\* falls in is not a key.
C3_OnlyObservedKeys ==
    \A i \in Calls("get_type_count") :
        LET df == log[i].arg
            d == log[i].out
        IN  /\ \A j \in DOMAIN d : d[j].v >= 1
            /\ \A label \in {"low", "medium", "high"} :
                  RowsLabelled(df, label) = {} =>
                      \A j \in DOMAIN d : d[j].k # label

\* C3 (amended): the mapping get_type_count returns has each of the three
\* labels as a key exactly once, and the count of a label no row falls in
\* is 0.
C3_AllKeysZeroCounts ==
    \A i \in Calls("get_type_count") :
        LET df == log[i].arg
            d == log[i].out
        IN  /\ Len(d) = 3
            /\ {d[j].k : j \in DOMAIN d} = {"low", "medium", "high"}
            /\ \A j \in DOMAIN d :
                  RowsLabelled(df, d[j].k) = {} => d[j].v = 0

\* C3's case: every car value of a non-empty table is below 15.
W3_AllLow ==
    \E i \in Calls("get_type_count") :
        LET df == log[i].arg
        IN  /\ df.rows # <<>>
            /\ \A k \in 1..Len(df.rows) : df.rows[k].car < 15
            /\ \E j \in DOMAIN log[i].out :
                  log[i].out[j].k = "high" /\ log[i].out[j].v = 0

\* C4: for a non-empty table get_bus_indexes returns exactly the positional
\* indices i with bus[i] > 2 * mean(bus) (a row at exactly twice the mean is
\* left out), strictly ascending.
C4_BusOutliers ==
    \A i \in Calls("get_bus_indexes") :
        LET df == log[i].arg
            n == Len(df.rows)
            total == SumSeq([k \in 1..n |-> df.rows[k].bus])
        IN  n > 0 =>
              /\ Range(log[i].out)
                   = {k - 1 : k \in {r \in 1..n : df.rows[r].bus * n > 2 * total}}
              /\ StrictlyAscending(log[i].out)

\* C4's case: one row lies above twice the mean and is returned, another
\* row is not.
W4_Outlier ==
    \E i \in Calls("get_bus_indexes") :
        LET df == log[i].arg
            n == Len(df.rows)
        IN  /\ n > 1
            /\ log[i].out # <<>>
            /\ Len(log[i].out) < n

\* C4's boundary case: a row with a positive bus value of exactly twice
\* the mean is left out.
W4_Tie ==
    \E i \in Calls("get_bus_indexes") :
        LET df == log[i].arg
            n == Len(df.rows)
            total == SumSeq([k \in 1..n |-> df.rows[k].bus])
        IN  \E r \in 1..n :
                /\ df.rows[r].bus > 0
                /\ df.rows[r].bus * n = 2 * total
                /\ (r - 1) \notin Range(log[i].out)

\* C5: filter_routes returns a route exactly when it occurs in the table
\* and the mean of truck over its rows is strictly greater than 7, each
\* once, in ascending order.
C5_RoutesAboveSeven ==
    \A i \in Calls("filter_routes") :
        LET df == log[i].arg
            routes == {df.rows[k].route : k \in 1..Len(df.rows)}
            Of(r) == {k \in 1..Len(df.rows) : df.rows[k].route = r}
            Total(r) == SumSeq([j \in 1..Cardinality(Of(r)) |->
                                   df.rows[Ascending(Of(r))[j]].truck])
        IN  /\ Range(log[i].out)
                 = {r \in routes : Total(r) > 7 * Cardinality(Of(r))}
            /\ StrictlyAscending(log[i].out)

\* C5's case: a route of two rows has a mean of exactly 7 and is absent,
\* while another route is returned.
W5_MeanExactlySeven ==
    \E i \in Calls("filter_routes") :
        LET df == log[i].arg
        IN  /\ log[i].out # <<>>
            /\ \E k, j \in 1..Len(df.rows) :
                  /\ k < j
                  /\ df.rows[k].route = df.rows[j].route
                  /\ df.rows[k].truck + df.rows[j].truck = 14
                  /\ df.rows[k].truck # 7
                  /\ Cardinality({r \in 1..Len(df.rows) :
                                     df.rows[r].route = df.rows[k].route}) = 2
                  /\ df.rows[k].route \notin Range(log[i].out)

\* y (hundredths) is x * pct / 100 rounded to one decimal: a whole number
\* of tenths, nearest to the product, the even tenth on a tie.
RoundedProduct(y, x, pct) ==
    LET diff == 100 * y - x * pct
        dist == IF diff < 0 THEN 0 - diff ELSE diff
    IN  /\ y % 10 = 0
        /\ dist <= 500
        /\ (dist = 500 => (y \div 10) % 2 = 0)

\* C6: multiply_matrix returns a matrix with the labels of its input; a
\* cell holding v becomes round(v * 0.75, 1) when v > 20 and
\* round(v * 1.25, 1) when v <= 20, the branch chosen by the original v;
\* an unset cell stays unset.
C6_Piecewise ==
    \A i \in Calls("multiply_matrix") :
        LET m == log[i].arg
            out == log[i].out
        IN  /\ out.index = m.index
            /\ out.columns = m.columns
            /\ DOMAIN out.cell = DOMAIN m.cell
            /\ \A p \in DOMAIN m.cell :
                  IF m.cell[p] = NaN THEN out.cell[p] = NaN
                  ELSE /\ out.cell[p] # NaN
                       /\ RoundedProduct(out.cell[p][1], m.cell[p][1],
                              IF m.cell[p][1] > 2000 THEN 75 ELSE 125)

\* C6's case: a matrix with an unset cell, a cell 24 that becomes 18.0 and
\* a cell 20 that becomes 25.0.
W6_Examples ==
    \E i \in Calls("multiply_matrix") :
        LET m == log[i].arg
            out == log[i].out
        IN  /\ \E p \in DOMAIN m.cell : m.cell[p] = NaN /\ out.cell[p] = NaN
            /\ \E p \in DOMAIN m.cell :
                  m.cell[p] = Num(2400) /\ out.cell[p] = Num(1800)
            /\ \E p \in DOMAIN m.cell :
                  m.cell[p] = Num(2000) /\ out.cell[p] = Num(2500)

\* The time of day (seconds since midnight) and the day of the week
\* (Monday = 0) of a timestamp cell, text or parsed.
ClockOf(x) ==
    IF x.kind = "str" THEN x.hh * 3600 + x.mm * 60 + x.ss ELSE x.epoch % 86400

WeekdayOf(x) ==
    IF x.kind = "str" THEN (x.date + 3) % 7 ELSE ((x.epoch \div 86400) + 3) % 7

\* C7: time_check returns one entry per distinct (id, id_2) pair of the
\* input; the entry is True exactly when, over the rows of the pair, the
\* earliest time of day is <= 00:00:00, the latest is >= 23:59:59 and the
\* days of the week are all of 0..6.
C7_Coverage ==
    \A i \in Calls("time_check") :
        LET df == log[i].arg
            out == log[i].out
            pairs == {<<df.rows[k].id, df.rows[k].id_2>> : k \in 1..Len(df.rows)}
        IN  /\ NoDuplicates([j \in DOMAIN out |-> out[j].k])
            /\ {out[j].k : j \in DOMAIN out} = pairs
            /\ \A j \in DOMAIN out :
                  LET rows == RowsOfPair(df, "id", "id_2", out[j].k[1], out[j].k[2])
                      clocks == {ClockOf(df.rows[k].timestamp) : k \in rows}
                      days == {WeekdayOf(df.rows[k].timestamp) : k \in rows}
                  IN  out[j].v <=>
                        /\ \E c \in clocks : c <= 0
                        /\ \E c \in clocks : c >= 86399
                        /\ days = 0..6

\* C7's case: one pair covers the week from 00:00:00 to 23:59:59 and is
\* True, another pair of the same table is False.
W7_CompleteAndIncomplete ==
    \E i \in Calls("time_check") :
        /\ \E j \in DOMAIN log[i].out : log[i].out[j].v
        /\ \E j \in DOMAIN log[i].out : ~log[i].out[j].v

\* C7's case of a pair with all seven weekdays but only times between
\* 09:00 and 17:00: False.
W7_OfficeHours ==
    \E i \in Calls("time_check") :
        LET df == log[i].arg
        IN  /\ Len(log[i].out) = 1
            /\ ~log[i].out[1].v
            /\ {WeekdayOf(df.rows[k].timestamp) : k \in 1..Len(df.rows)} = 0..6
            /\ {ClockOf(df.rows[k].timestamp) : k \in 1..Len(df.rows)}
                 = {32400, 61200}

\* C7's case of a pair that spans 00:00:00 to 23:59:59 on six weekdays and
\* misses Sunday: False.
W7_MissingSunday ==
    \E i \in Calls("time_check") :
        LET df == log[i].arg
        IN  /\ Len(log[i].out) = 1
            /\ ~log[i].out[1].v
            /\ {WeekdayOf(df.rows[k].timestamp) : k \in 1..Len(df.rows)} = 0..5
            /\ {ClockOf(df.rows[k].timestamp) : k \in 1..Len(df.rows)}
                 = {0, 86399}

\* C8 as claimed: get_type_count and time_check leave the caller's table
\* as it was: the same columns and the same cell values.
C8_InputUntouched ==
    (Calls("get_type_count") \cup Calls("time_check")) # {} => heap[1] = orig

\* C9: multiply_matrix leaves the caller's matrix as it was, and the frame
\* it returns is another object: changing the returned frame afterwards
\* does not change the caller's matrix.
C9_InputMatrixKept ==
    Calls("multiply_matrix") # {} => heap[1] = orig /\ ret = 2

\* C9's case: multiply_matrix has scaled a present cell and the caller has
\* then changed the returned frame.
W9_ResultEdited ==
    /\ Calls("multiply_matrix") # {}
    /\ log[Len(log)].fn = "multiply_matrix"
    /\ \E p \in DOMAIN orig.cell : orig.cell[p] # NaN
    /\ heap[ret] # log[Len(log)].out

\* C10: a second call of a function on the same input object, as the first
\* call left it, returns what the first call returned.
C10_SameOutputAgain ==
    \A i, j \in DOMAIN log :
        i < j /\ log[i].fn = log[j].fn => log[i].out = log[j].out

\* C10's case: time_check is called twice, the second time on the table
\* the first call has changed, and a pair is complete.
W10_SecondCallOnChangedInput ==
    \E i, j \in Calls("time_check") :
        /\ i < j
        /\ log[i].arg # log[j].arg
        /\ \E k \in DOMAIN log[j].out : log[j].out[k].v

====
